---- MODULE Spec2Model ----
(***************************************************************************)
(* Model of the document-management front-end (daas):                      *)
(*   - utils/apiConfig.js      apiRequest, the transport helper            *)
(*   - components/ApiStatus    the connectivity indicator                  *)
(*   - App + ErrorBoundary     the shell and the fault isolation wrapper   *)
(*   - UploadTab, DocumentsTab, SearchTab, ChatTab   the four views        *)
(*   - components/DocumentViewer   the detail viewer of the listing view   *)
(*                                                                         *)
(* Four specifications share the module:                                   *)
(*   SpecApi     one call of apiRequest against a clock                    *)
(*   SpecStatus  the connectivity indicator polling against a clock        *)
(*   Spec        the shell, the wrapper and the four views with the        *)
(*               requests they have in flight                              *)
(*   SpecForms   the upload and the search view with submit events         *)
(*               dispatched to their forms                                 *)
(*                                                                         *)
(* Strings built by template literals are modelled as sequences of their   *)
(* parts, so `Error: ${err.message}` is <<"Error: ">> \o message.          *)
(***************************************************************************)
EXTENDS FiniteSets, Integers, Sequences, TLC

VARIABLES
    \* ---- apiRequest (utils/apiConfig.js) ----
    apiStage,       \* "idle" | "fetching" | "errBody" | "okBody" | "resolved" | "rejected"
    apiTimer,       \* "unset" | "armed" | "cleared" | "fired"   (timeoutId)
    apiClock,       \* ms since the call started
    apiResponse,    \* the Response fetch resolved with
    apiResult,      \* what the returned promise settled with
    apiSettledAt,   \* apiClock when the promise settled, -1 before
    \* ---- ApiStatus ----
    status,         \* useState('checking')
    prevStatus,     \* status before the poll that completed last (history)
    polls,          \* ages in ms of the checkApiStatus calls awaiting their fetch
    sinceTick,      \* ms since the interval last fired (or since mount)
    lastOutcome,    \* how the poll that completed last ended (history)
    \* ---- App, ErrorBoundary and the views ----
    loaded,         \* the page (and with it the program) is alive
    app,            \* App state: activeTab, documents
    boundary,       \* ErrorBoundary state: hasError
    uploadTab,      \* UploadTab state while mounted
    documentsTab,   \* DocumentsTab state while mounted
    searchTab,      \* SearchTab state while mounted
    chatTab,        \* ChatTab state while mounted
    viewer,         \* DocumentViewer state while the listing view shows it
    requests,       \* requests in flight, in the order they were issued
    lastAlert,      \* text of the latest window.alert
    threadSeen,     \* thread id of the latest reply that carried one (history)
    recovered       \* "Try to recover" has been used (history)

apiVars    == <<apiStage, apiTimer, apiClock, apiResponse, apiResult, apiSettledAt>>
statusVars == <<status, prevStatus, polls, sinceTick, lastOutcome>>
appVars    == <<loaded, app, boundary, uploadTab, documentsTab, searchTab, chatTab, viewer,
                requests, lastAlert, threadSeen, recovered>>
vars       == <<apiVars, statusVars, appVars>>

----------------------------------------------------------------------------
(* Bounds of the model *)

TickMs       == 10000   \* granularity of the apiRequest clock
MaxClock     == 50000   \* the apiRequest clock stops here
PollTickMs   == 1000    \* granularity of the indicator's clock
MaxInFlight  == 2       \* requests in flight at once
MaxTurns     == 3       \* chat turns per mounted conversation view

----------------------------------------------------------------------------
(* JavaScript values *)

Undefined == "undefined"
Null      == "null"

\* JavaScript truthiness of a string-or-missing value
Truthy(v) == v # Undefined /\ v # Null /\ v # ""

----------------------------------------------------------------------------
(* utils/apiConfig.js *)

TIMEOUT == 30000

TimeoutMessage == <<"Request timed out. Please try again.">>
NetworkMessage == <<"Failed to fetch">>
SyntaxMessage  == <<"Unexpected token < in JSON">>

\* Response bodies: kind says what response.json() does with them
\*   "object"    parses to an object, whose detail field is `detail`
\*   "null"      parses to null
\*   "invalid"   is not JSON: json() rejects with a SyntaxError
\*   "truncated" the connection drops while reading: json() rejects with a TypeError
NoBody == [kind |-> "none", detail |-> Undefined]
Bodies ==
    { [kind |-> "object", detail |-> d] : d \in {Undefined, "", "Document not found"} }
    \cup { [kind |-> k, detail |-> Undefined] : k \in {"null", "invalid", "truncated"} }

StatusLines ==
    { [status |-> 200, statusText |-> "OK"],
      [status |-> 204, statusText |-> "No Content"],
      [status |-> 404, statusText |-> "Not Found"] }

Responses == { [status |-> s.status, statusText |-> s.statusText, body |-> b] :
                 s \in StatusLines, b \in Bodies }
NoResponse == [status |-> 0, statusText |-> "", body |-> NoBody]

\* response.ok
ResponseOk(resp) == resp.status >= 200 /\ resp.status <= 299

Pending      == [kind |-> "pending", message |-> <<>>, data |-> NoBody]
Resolved(d)  == [kind |-> "value", message |-> <<>>, data |-> d]
Rejected(m)  == [kind |-> "error", message |-> m, data |-> NoBody]
SuccessSentinel == [kind |-> "success", detail |-> Undefined]   \* { success: true }

\* What the inner try block (lines 56-58) throws: response.json() rejecting, reading
\* .detail of null, or the Error built from the detail field.
InnerThrow(resp) ==
    CASE resp.body.kind = "invalid"   -> SyntaxMessage
      [] resp.body.kind = "truncated" -> NetworkMessage
      [] resp.body.kind = "null"      -> <<"Cannot read properties of null">>
      [] OTHER -> IF Truthy(resp.body.detail)
                  THEN <<resp.body.detail>>
                  ELSE <<"API Error: ", ToString(resp.status)>>

GenericMessage(resp) == <<"API Error: ", ToString(resp.status), " ", resp.statusText>>

\* The message of the error that leaves the !response.ok branch (lines 54-62):
\* catch (jsonError) catches every throw of the try block, the Error carrying the
\* detail included, and throws the generic message in its place.
ErrorBranchMessage(resp) ==
    LET jsonError == InnerThrow(resp)
    IN  GenericMessage(resp)

\* The timer callback is due: timers run before anything else is delivered
TimerDue == apiTimer = "armed" /\ apiClock >= TIMEOUT

Settle(result) ==
    /\ apiResult' = result
    /\ apiStage' = IF result.kind = "value" THEN "resolved" ELSE "rejected"
    /\ apiSettledAt' = apiClock

\* lines 38-50: the controller and the timer are created and fetch is called
ApiRequestStart ==
    /\ apiStage = "idle"
    /\ apiStage' = "fetching"
    /\ apiTimer' = "armed"
    /\ UNCHANGED <<apiClock, apiResponse, apiResult, apiSettledAt>>
    /\ UNCHANGED <<statusVars, appVars>>

\* lines 43-67: fetch resolves with a response; the timer is cleared
FetchResolves ==
    /\ apiStage = "fetching"
    /\ ~TimerDue
    /\ \E resp \in Responses :
        /\ apiResponse' = resp
        /\ apiTimer' = "cleared"
        /\ IF ~ResponseOk(resp)
           THEN apiStage' = "errBody" /\ UNCHANGED <<apiResult, apiSettledAt>>
           ELSE IF resp.status = 204
                THEN Settle(Resolved(SuccessSentinel))
                ELSE apiStage' = "okBody" /\ UNCHANGED <<apiResult, apiSettledAt>>
    /\ UNCHANGED apiClock
    /\ UNCHANGED <<statusVars, appVars>>

\* lines 43, 70-75: fetch rejects with a network error (a TypeError); the timer
\* is left armed
FetchRejects ==
    /\ apiStage = "fetching"
    /\ ~TimerDue
    /\ Settle(Rejected(NetworkMessage))
    /\ UNCHANGED <<apiTimer, apiClock, apiResponse>>
    /\ UNCHANGED <<statusVars, appVars>>

\* lines 56-61, 70-75: response.json() of a non-2xx response settles
ErrorBodyRead ==
    /\ apiStage = "errBody"
    /\ Settle(Rejected(ErrorBranchMessage(apiResponse)))
    /\ UNCHANGED <<apiTimer, apiClock, apiResponse>>
    /\ UNCHANGED <<statusVars, appVars>>

\* lines 69-75: response.json() of a 2xx response settles
OkBodyRead ==
    /\ apiStage = "okBody"
    /\ Settle(CASE apiResponse.body.kind = "invalid"   -> Rejected(SyntaxMessage)
                [] apiResponse.body.kind = "truncated" -> Rejected(NetworkMessage)
                [] OTHER -> Resolved(apiResponse.body))
    /\ UNCHANGED <<apiTimer, apiClock, apiResponse>>
    /\ UNCHANGED <<statusVars, appVars>>

\* line 40, 70-73: the timer fires and aborts the controller; a fetch still
\* waiting for its response rejects with an AbortError
TimerFires ==
    /\ TimerDue
    /\ apiTimer' = "fired"
    /\ IF apiStage = "fetching"
       THEN Settle(Rejected(TimeoutMessage))
       ELSE UNCHANGED <<apiStage, apiResult, apiSettledAt>>
    /\ UNCHANGED <<apiClock, apiResponse>>
    /\ UNCHANGED <<statusVars, appVars>>

\* time passes while the call is under way
ApiTick ==
    /\ apiStage # "idle"
    /\ ~TimerDue
    /\ apiClock < MaxClock
    /\ apiClock' = apiClock + TickMs
    /\ UNCHANGED <<apiStage, apiTimer, apiResponse, apiResult, apiSettledAt>>
    /\ UNCHANGED <<statusVars, appVars>>

InitApi ==
    /\ apiStage = "idle"
    /\ apiTimer = "unset"
    /\ apiClock = 0
    /\ apiResponse = NoResponse
    /\ apiResult = Pending
    /\ apiSettledAt = -1

NextApi ==
    \/ ApiRequestStart
    \/ FetchResolves
    \/ FetchRejects
    \/ ErrorBodyRead
    \/ OkBodyRead
    \/ TimerFires
    \/ ApiTick

----------------------------------------------------------------------------
(* components/ApiStatus.jsx *)

LIVENESS_TIMEOUT == 3000
POLL_INTERVAL    == 30000

NoOutcome == [kind |-> "none", status |-> 0]
PollOutcomes ==
    { [kind |-> "response", status |-> s.status] : s \in StatusLines }
    \cup { [kind |-> "network", status |-> 0] }

\* a StatusAfter that reports every answer of the server as online
StatusAfter_AnyResponseOnline(outcome) ==
    IF outcome.kind = "response" THEN "online" ELSE "offline"

\* lines 18-25: the status a completed checkApiStatus call sets
StatusAfter(outcome) ==
    IF outcome.kind = "response"
    THEN IF ResponseOk(outcome) THEN "online" ELSE "error"
    ELSE "offline"

RemoveAt(seq, i) == SubSeq(seq, 1, i - 1) \o SubSeq(seq, i + 1, Len(seq))

\* AbortSignal.timeout(3000) of some pending fetch is due
PollTimeoutDue == \E i \in 1..Len(polls) : polls[i] >= LIVENESS_TIMEOUT
\* the setInterval callback is due
IntervalDue == sinceTick >= POLL_INTERVAL

\* lines 10-25: the fetch of a pending poll settles, with a response or with a
\* network error
PollSettles ==
    /\ ~PollTimeoutDue
    /\ \E i \in 1..Len(polls), outcome \in PollOutcomes :
        /\ status' = StatusAfter(outcome)
        /\ prevStatus' = status
        /\ lastOutcome' = outcome
        /\ polls' = RemoveAt(polls, i)
    /\ UNCHANGED sinceTick
    /\ UNCHANGED <<apiVars, appVars>>

\* lines 15, 23-25: the 3 s signal aborts the fetch, which rejects
PollTimesOut ==
    /\ \E i \in 1..Len(polls) :
        /\ polls[i] >= LIVENESS_TIMEOUT
        /\ status' = StatusAfter([kind |-> "timeout", status |-> 0])
        /\ prevStatus' = status
        /\ lastOutcome' = [kind |-> "timeout", status |-> 0]
        /\ polls' = RemoveAt(polls, i)
    /\ UNCHANGED sinceTick
    /\ UNCHANGED <<apiVars, appVars>>

\* line 31: the interval fires and starts another checkApiStatus
IntervalFires ==
    /\ IntervalDue
    /\ ~PollTimeoutDue
    /\ polls' = Append(polls, 0)
    /\ sinceTick' = 0
    /\ UNCHANGED <<status, prevStatus, lastOutcome>>
    /\ UNCHANGED <<apiVars, appVars>>

\* time passes; callbacks that are due run first
StatusTick ==
    /\ ~PollTimeoutDue
    /\ ~IntervalDue
    /\ sinceTick' = sinceTick + PollTickMs
    /\ polls' = [i \in 1..Len(polls) |-> polls[i] + PollTickMs]
    /\ UNCHANGED <<status, prevStatus, lastOutcome>>
    /\ UNCHANGED <<apiVars, appVars>>

\* lines 5, 28-31: the state once the mount effect has run
InitStatus ==
    /\ status = "checking"
    /\ prevStatus = "checking"
    /\ polls = <<0>>
    /\ sinceTick = 0
    /\ lastOutcome = NoOutcome

NextStatus ==
    \/ PollSettles
    \/ PollTimesOut
    \/ IntervalFires
    \/ StatusTick

----------------------------------------------------------------------------
(* Requests in flight *)

Tabs == {"upload", "documents", "search", "chat"}

\* The messages apiRequest rejects with, as the views see them
ApiErrors ==
    { TimeoutMessage,
      GenericMessage([status |-> 404, statusText |-> "Not Found"]) }

\* A request in flight: the view whose handler issued it, what it asks, why it was
\* issued, and whether the component instance that issued it is still mounted.
Req(view, kind, cause) ==
    [view |-> view, kind |-> kind, cause |-> cause, live |-> TRUE,
     documentId |-> "", message |-> <<>>, thread_id |-> Null, limit |-> 0]

\* Unmounting leaves the requests of the unmounted instance in flight
Orphan(reqs) == [i \in 1..Len(reqs) |-> [reqs[i] EXCEPT !.live = FALSE]]

RemoveRequest(i) == RemoveAt(requests, i)

Range(seq) == { seq[i] : i \in 1..Len(seq) }

\* History kept by the listing view and the viewer: `latest` is the outcome of the
\* fetch the instance issued last, <<"pending">> until that fetch settles. Requests
\* stay in the order they were issued, so while the outcome is pending that fetch
\* is the last live request of its kind.
IsLatest(i, was) ==
    /\ was = <<"pending">>
    /\ \A j \in (i + 1)..Len(requests) :
          ~(requests[j].kind = requests[i].kind /\ requests[j].live)

WithLatest(state, i, outcome) ==
    [state EXCEPT !.latest = IF IsLatest(i, @) THEN outcome ELSE @]

----------------------------------------------------------------------------
(* Initial state of each view (its useState calls) and its unmounted form *)

\* UploadTab, lines 5-9
UploadTabInitial ==
    [mounted |-> TRUE, selectedFiles |-> <<>>, uploadResult |-> <<>>, progress |-> 0,
     isUploading |-> FALSE, uploadError |-> <<>>]

\* DocumentsTab, lines 6-9
DocumentsTabInitial ==
    [mounted |-> TRUE, documents |-> <<>>, isLoading |-> TRUE, error |-> <<>>,
     selectedDocument |-> <<>>, latest |-> <<"pending">>]

\* SearchTab, lines 5-10
SearchTabInitial ==
    [mounted |-> TRUE, query |-> <<>>, fileFilter |-> "", numResults |-> 5,
     results |-> <<>>, hasResults |-> FALSE, isSearching |-> FALSE, error |-> <<>>]

\* ChatTab, lines 11-19
ChatTabInitial ==
    [mounted |-> TRUE, messages |-> <<>>, input |-> <<>>, isProcessing |-> FALSE,
     threadId |-> Null, error |-> <<>>, systemStatus |-> [status |-> "unknown"]]

\* DocumentViewer, lines 5-7, showing the document `id`; latest is the outcome of
\* the fetch its effect issued last (history)
ViewerInitial(id) ==
    [mounted |-> TRUE, documentId |-> id, content |-> <<>>, isLoading |-> TRUE,
     error |-> <<>>, latest |-> <<"pending">>]

Unmounted(initial) == [initial EXCEPT !.mounted = FALSE]

ViewerClosed == Unmounted(ViewerInitial(""))

\* The requests the mount effect of a view issues: loadDocumentsList (DocumentsTab
\* lines 31-33) and checkSystemStatus (ChatTab lines 32-54)
MountEffect(tab) ==
    CASE tab = "documents" -> <<Req("documents", "list", "mount")>>
      [] tab = "chat"      -> <<Req("chat", "status", "mount")>>
      [] OTHER             -> <<>>

\* App lines 126-131: the child selected by activeTab is mounted with fresh state,
\* every other child is unmounted
MountOnly(tab) ==
    /\ uploadTab' = IF tab = "upload" THEN UploadTabInitial
                    ELSE Unmounted(UploadTabInitial)
    /\ documentsTab' = IF tab = "documents" THEN DocumentsTabInitial
                       ELSE Unmounted(DocumentsTabInitial)
    /\ searchTab' = IF tab = "search" THEN SearchTabInitial
                    ELSE Unmounted(SearchTabInitial)
    /\ chatTab' = IF tab = "chat" THEN ChatTabInitial
                  ELSE Unmounted(ChatTabInitial)
    /\ viewer' = ViewerClosed
    /\ requests' = Orphan(requests) \o MountEffect(tab)
    /\ threadSeen' = Null

UnmountAll ==
    /\ uploadTab' = Unmounted(UploadTabInitial)
    /\ documentsTab' = Unmounted(DocumentsTabInitial)
    /\ searchTab' = Unmounted(SearchTabInitial)
    /\ chatTab' = Unmounted(ChatTabInitial)
    /\ viewer' = ViewerClosed
    /\ requests' = Orphan(requests)
    /\ threadSeen' = Null

viewVars == <<uploadTab, documentsTab, searchTab, chatTab, viewer>>

----------------------------------------------------------------------------
(* App (the shell) and ErrorBoundary *)

\* ErrorBoundary lines 9-12, getDerivedStateFromError
DerivedStateFromError == [hasError |-> TRUE]

\* ErrorBoundary line 39, the state "Try to recover" sets
RecoveredState == [hasError |-> FALSE]

\* a wrapper that is created anew, without its error, when the active view changes
BoundaryOnTabSwitch_Reset(state) == [hasError |-> FALSE]

\* App lines 126-131: the wrapper is the same element whatever the active view
\* is, so it keeps its state when the view is switched
BoundaryOnTabSwitch(state) == state

\* App lines 76, 90-123: a tab button sets activeTab; the wrapper renders its
\* children only while it has no error (ErrorBoundary lines 23-61)
SetActiveTab(tab) ==
    /\ loaded
    /\ tab # app.activeTab
    /\ app' = [app EXCEPT !.activeTab = tab]
    /\ boundary' = BoundaryOnTabSwitch(boundary)
    /\ IF boundary.hasError
       THEN UNCHANGED <<viewVars, requests, threadSeen>>
       ELSE /\ Len(requests) + Len(MountEffect(tab)) <= MaxInFlight
            /\ MountOnly(tab)
    /\ UNCHANGED <<loaded, lastAlert, recovered>>
    /\ UNCHANGED <<apiVars, statusVars>>

\* ErrorBoundary lines 9-21: a child throws while rendering; the wrapper takes the
\* error state and renders the fallback in place of its children
RenderFails ==
    /\ loaded
    /\ ~boundary.hasError
    /\ boundary' = DerivedStateFromError
    /\ UnmountAll
    /\ UNCHANGED <<loaded, app, lastAlert, recovered>>
    /\ UNCHANGED <<apiVars, statusVars>>

\* ErrorBoundary lines 37-42: "Try to recover" clears the error state and the
\* children are rendered again
TryToRecover ==
    /\ loaded
    /\ boundary.hasError
    /\ Len(requests) + Len(MountEffect(app.activeTab)) <= MaxInFlight
    /\ boundary' = RecoveredState
    /\ MountOnly(app.activeTab)
    /\ recovered' = TRUE
    /\ UNCHANGED <<loaded, app, lastAlert>>
    /\ UNCHANGED <<apiVars, statusVars>>

\* ErrorBoundary lines 31-36: "Refresh Page" reloads the document: this run of the
\* program ends and its requests are dropped by the browser
RefreshPage ==
    /\ loaded
    /\ boundary.hasError
    /\ loaded' = FALSE
    /\ requests' = <<>>
    /\ UNCHANGED <<app, boundary, viewVars, lastAlert, threadSeen, recovered>>
    /\ UNCHANGED <<apiVars, statusVars>>

----------------------------------------------------------------------------
(* DocumentsTab (the listing view) *)

DocA == [document_id |-> "d1", filename |-> "a.pdf"]
DocB == [document_id |-> "d2", filename |-> "b.pdf"]

\* The chunks GET /api/documents/search answers with
ChunkA == [content |-> "alpha", document_id |-> "d1"]
ChunkB == [content |-> "beta", document_id |-> "d2"]
ContentResponses == { <<ChunkA>>, <<ChunkB, ChunkA>> }

\* The document lists GET /api/documents answers with
ListResponses == { <<>>, <<DocA>>, <<DocA, DocB>> }

\* lines 12-13 of loadDocumentsList, which run before its request is issued
LoadingStarted(tab) ==
    [tab EXCEPT !.isLoading = TRUE, !.error = <<>>, !.latest = <<"pending">>]

\* lines 17-22: what a fetched list does to the view and to the shell
ListFetched(tab, docs) == [tab EXCEPT !.documents = docs, !.isLoading = FALSE]
SharedAfterList(shell, docs) == [shell EXCEPT !.documents = docs]

\* lines 23-28: what a failed list fetch does to the view
ListFailed(tab, message) ==
    [tab EXCEPT !.error = <<"Failed to load documents: ">> \o message,
                !.isLoading = FALSE]

\* an AfterDelete that does not load the list again
AfterDelete_NoRefresh(deleted) == <<>>

\* line 43: the requests handleDeleteDocument issues once its delete request
\* succeeded
AfterDelete(deleted) ==
    <<[Req("documents", "list", "delete") EXCEPT !.live = deleted.live]>>

\* an AfterDeleteFailed that loads the list again all the same
AfterDeleteFailed_Refresh(deleted) ==
    <<[Req("documents", "list", "delete") EXCEPT !.live = deleted.live]>>

\* lines 44-47: the requests handleDeleteDocument issues once its delete request
\* failed
AfterDeleteFailed(deleted) == <<>>

docsFrame == <<loaded, boundary, uploadTab, searchTab, chatTab, viewer, threadSeen,
               recovered>>

\* lines 55-61: the Refresh button, enabled while the view is not loading
DocsRefresh ==
    /\ loaded
    /\ documentsTab.mounted
    /\ ~documentsTab.isLoading
    /\ Len(requests) < MaxInFlight
    /\ documentsTab' = LoadingStarted(documentsTab)
    /\ requests' = Append(requests, Req("documents", "list", "refresh"))
    /\ UNCHANGED <<docsFrame, app, lastAlert>>
    /\ UNCHANGED <<apiVars, statusVars>>

\* lines 16-22, 26-28: the request of a loadDocumentsList call resolves
ListSucceeds(i, docs) ==
    /\ requests[i].kind = "list"
    /\ requests' = RemoveRequest(i)
    /\ documentsTab' = IF requests[i].live
                       THEN WithLatest(ListFetched(documentsTab, docs), i, <<"docs", docs>>)
                       ELSE documentsTab
    /\ app' = SharedAfterList(app, docs)
    /\ UNCHANGED <<docsFrame, lastAlert>>
    /\ UNCHANGED <<apiVars, statusVars>>

\* lines 16, 23-28: the request of a loadDocumentsList call rejects
ListFails(i, message) ==
    /\ requests[i].kind = "list"
    /\ requests' = RemoveRequest(i)
    /\ documentsTab' = IF requests[i].live
                       THEN WithLatest(ListFailed(documentsTab, message), i, <<"error">>)
                       ELSE documentsTab
    /\ UNCHANGED <<docsFrame, app, lastAlert>>
    /\ UNCHANGED <<apiVars, statusVars>>

ListSettles ==
    /\ loaded
    /\ \E i \in 1..Len(requests) :
        \/ \E docs \in ListResponses : ListSucceeds(i, docs)
        \/ \E message \in ApiErrors : ListFails(i, message)

\* DocumentViewer lines 15-20: the request of fetchDocumentContent
ContentRequest(id) ==
    [Req("viewer", "content", "effect") EXCEPT !.documentId = id, !.limit = 50]

\* closing the viewer unmounts it and leaves its requests in flight
OrphanViewer(reqs) ==
    [i \in 1..Len(reqs) |->
        IF reqs[i].kind = "content" THEN [reqs[i] EXCEPT !.live = FALSE] ELSE reqs[i]]

\* DocumentViewer lines 9-11, 29-30: the effect runs when the viewer is mounted and
\* again whenever documentId changes; the viewer keeps its state across a change
ViewerOnSelect(v, id) ==
    IF v.mounted
    THEN [v EXCEPT !.documentId = id, !.isLoading = TRUE, !.latest = <<"pending">>]
    ELSE ViewerInitial(id)

docsViewFrame == <<loaded, boundary, uploadTab, searchTab, chatTab, threadSeen, recovered>>

\* DocumentsTab lines 92-97, 113-119: the View button of a displayed row selects
\* the document; the viewer is rendered for it and its effect fetches the content
DocsView ==
    /\ loaded
    /\ documentsTab.mounted
    /\ ~documentsTab.isLoading
    /\ Len(requests) < MaxInFlight
    /\ \E doc \in Range(documentsTab.documents) :
        /\ documentsTab.selectedDocument # <<doc>>
        /\ documentsTab' = [documentsTab EXCEPT !.selectedDocument = <<doc>>]
        /\ viewer' = ViewerOnSelect(viewer, doc.document_id)
        /\ requests' = Append(requests, ContentRequest(doc.document_id))
    /\ UNCHANGED <<docsViewFrame, app, lastAlert>>
    /\ UNCHANGED <<apiVars, statusVars>>

\* DocumentsTab lines 113-119: the viewer's onClose
DocsCloseViewer ==
    /\ loaded
    /\ documentsTab.mounted
    /\ documentsTab.selectedDocument # <<>>
    /\ documentsTab' = [documentsTab EXCEPT !.selectedDocument = <<>>]
    /\ viewer' = ViewerClosed
    /\ requests' = OrphanViewer(requests)
    /\ UNCHANGED <<docsViewFrame, app, lastAlert>>
    /\ UNCHANGED <<apiVars, statusVars>>

\* DocumentViewer lines 20-21, 24-26: the content arrived
ContentFetched(v, chunks) == [v EXCEPT !.content = chunks, !.isLoading = FALSE]

\* DocumentViewer lines 22-26: the fetch failed
ContentFailed(v, message) ==
    [v EXCEPT !.error = <<"Failed to load document content: ">> \o message,
              !.isLoading = FALSE]

ContentSucceeds(i, chunks) ==
    /\ requests[i].kind = "content"
    /\ requests' = RemoveRequest(i)
    /\ viewer' = IF requests[i].live
                 THEN WithLatest(ContentFetched(viewer, chunks), i, <<"chunks", chunks>>)
                 ELSE viewer
    /\ UNCHANGED <<docsViewFrame, app, documentsTab, lastAlert>>
    /\ UNCHANGED <<apiVars, statusVars>>

ContentFails(i, message) ==
    /\ requests[i].kind = "content"
    /\ requests' = RemoveRequest(i)
    /\ viewer' = IF requests[i].live
                 THEN WithLatest(ContentFailed(viewer, message), i,
                                 <<"error", <<"Failed to load document content: ">>
                                               \o message>>)
                 ELSE viewer
    /\ UNCHANGED <<docsViewFrame, app, documentsTab, lastAlert>>
    /\ UNCHANGED <<apiVars, statusVars>>

ContentSettles ==
    /\ loaded
    /\ \E i \in 1..Len(requests) :
        \/ \E chunks \in ContentResponses : ContentSucceeds(i, chunks)
        \/ \E message \in ApiErrors : ContentFails(i, message)

\* DocumentViewer lines 41-64: what the body of the viewer shows
Displayed(v) ==
    IF v.isLoading THEN <<"loading">>
    ELSE IF v.error # <<>> THEN <<"error", v.error>>
    ELSE <<"chunks", v.content>>

\* lines 98-103: the Delete button is there for every displayed row
DeleteEnabled(doc) ==
    /\ loaded
    /\ documentsTab.mounted
    /\ ~documentsTab.isLoading
    /\ doc \in Range(documentsTab.documents)

\* lines 35-40: handleDeleteDocument up to its request; window.confirm has answered
DeleteRequests(doc, confirmed) ==
    IF confirmed
    THEN <<[Req("documents", "delete", "click") EXCEPT !.documentId = doc.document_id]>>
    ELSE <<>>

DocsDeleteConfirmed(doc) ==
    /\ DeleteEnabled(doc)
    /\ Len(requests) < MaxInFlight
    /\ requests' = requests \o DeleteRequests(doc, TRUE)
    /\ UNCHANGED <<docsFrame, app, documentsTab, lastAlert>>
    /\ UNCHANGED <<apiVars, statusVars>>

DocsDeleteDeclined(doc) ==
    /\ DeleteEnabled(doc)
    /\ requests' = requests \o DeleteRequests(doc, FALSE)
    /\ UNCHANGED <<docsFrame, app, documentsTab, lastAlert>>
    /\ UNCHANGED <<apiVars, statusVars>>

DocsDelete ==
    \E doc \in {DocA, DocB} :
        \/ DocsDeleteConfirmed(doc)
        \/ DocsDeleteDeclined(doc)

\* lines 37-43: the delete request resolves; the list is loaded again
DeleteSucceeds(i) ==
    /\ requests[i].kind = "delete"
    /\ lastAlert' = <<"Document deleted successfully">>
    /\ documentsTab' = IF requests[i].live THEN LoadingStarted(documentsTab)
                       ELSE documentsTab
    /\ requests' = RemoveRequest(i) \o AfterDelete(requests[i])
    /\ UNCHANGED <<docsFrame, app>>
    /\ UNCHANGED <<apiVars, statusVars>>

\* lines 37-40, 44-47: the delete request rejects
DeleteFails(i, message) ==
    /\ requests[i].kind = "delete"
    /\ lastAlert' = <<"Error deleting document: ">> \o message
    /\ requests' = RemoveRequest(i) \o AfterDeleteFailed(requests[i])
    /\ UNCHANGED <<docsFrame, app, documentsTab>>
    /\ UNCHANGED <<apiVars, statusVars>>

DeleteSettles ==
    /\ loaded
    /\ \E i \in 1..Len(requests) :
        \/ DeleteSucceeds(i)
        \/ \E message \in ApiErrors : DeleteFails(i, message)

----------------------------------------------------------------------------
(* Text typed by the user: a sequence of characters *)

RECURSIVE TrimLeft(_)
TrimLeft(text) ==
    IF text # <<>> /\ Head(text) = " " THEN TrimLeft(Tail(text)) ELSE text

RECURSIVE TrimRight(_)
TrimRight(text) ==
    IF text # <<>> /\ text[Len(text)] = " "
    THEN TrimRight(SubSeq(text, 1, Len(text) - 1))
    ELSE text

\* String.prototype.trim
Trim(text) == TrimRight(TrimLeft(text))

----------------------------------------------------------------------------
(* UploadTab *)

FileSelections == { <<>>, <<"a.pdf", "b.pdf">> }
ProgressSteps  == { 50 }

\* What xhr.onload can find: a status line and a body that arrived whole
UploadResponses == { r \in Responses : r.body.kind # "truncated" }

uploadFrame == <<loaded, app, boundary, documentsTab, searchTab, chatTab, viewer, lastAlert,
                 threadSeen, recovered>>

\* lines 11-13: handleFileChange
HandleFileChange ==
    /\ loaded
    /\ uploadTab.mounted
    /\ \E files \in FileSelections :
        /\ files # uploadTab.selectedFiles
        /\ uploadTab' = [uploadTab EXCEPT !.selectedFiles = files]
    /\ UNCHANGED <<uploadFrame, requests>>
    /\ UNCHANGED <<apiVars, statusVars>>

\* lines 15-83: handleSubmit, up to xhr.send
UploadHandleSubmit ==
    IF Len(uploadTab.selectedFiles) = 0
    THEN /\ uploadTab' = [uploadTab EXCEPT !.uploadResult = <<"Please select a file">>]
         /\ requests' = requests
    ELSE /\ Len(requests) < MaxInFlight
         /\ uploadTab' = [uploadTab EXCEPT !.isUploading = TRUE, !.progress = 0,
                                           !.uploadError = <<>>]
         /\ requests' = Append(requests,
               [Req("upload", "upload", "submit")
                  EXCEPT !.message = uploadTab.selectedFiles])

\* lines 101-107: the Upload button, enabled while nothing is uploading and a
\* file is selected
UploadSubmit ==
    /\ loaded
    /\ uploadTab.mounted
    /\ ~(uploadTab.isUploading \/ Len(uploadTab.selectedFiles) = 0)
    /\ UploadHandleSubmit
    /\ UNCHANGED uploadFrame
    /\ UNCHANGED <<apiVars, statusVars>>

\* line 89: a submit event that reaches the form without the button, as
\* form.requestSubmit() dispatches it; handleSubmit runs whatever the button's
\* state is
UploadFormSubmit ==
    /\ loaded
    /\ uploadTab.mounted
    /\ UploadHandleSubmit
    /\ UNCHANGED uploadFrame
    /\ UNCHANGED <<apiVars, statusVars>>

\* lines 37-42: a progress event of the upload
UploadProgress ==
    /\ loaded
    /\ \E i \in 1..Len(requests), percent \in ProgressSteps :
        /\ requests[i].kind = "upload"
        /\ requests[i].live
        /\ uploadTab.progress < percent
        /\ uploadTab' = [uploadTab EXCEPT !.progress = percent]
    /\ UNCHANGED <<uploadFrame, requests>>
    /\ UNCHANGED <<apiVars, statusVars>>

\* JSON.parse(xhr.responseText) throws
ParseThrows(resp) == resp.body.kind = "invalid"

UploadResultOf(resp) ==
    IF resp.body.kind = "null" THEN <<>> ELSE <<"json", resp.body.detail>>

\* lines 52-60: the message shown for a non-2xx answer
UploadErrorOf(resp) ==
    IF ParseThrows(resp) \/ resp.body.kind = "null"
    THEN <<"Error: Status ", ToString(resp.status)>>
    ELSE IF Truthy(resp.body.detail)
         THEN <<resp.body.detail>>
         ELSE <<"Upload failed with status ", ToString(resp.status)>>

\* lines 44-63: xhr.onload. A 2xx body that is not JSON makes JSON.parse throw
\* out of the handler, before any state is set.
OnLoad(tab, resp) ==
    IF ResponseOk(resp)
    THEN IF ParseThrows(resp)
         THEN tab
         ELSE [tab EXCEPT !.uploadResult = UploadResultOf(resp),
                          !.selectedFiles = <<>>,
                          !.isUploading = FALSE]
    ELSE [tab EXCEPT !.uploadError = UploadErrorOf(resp),
                     !.uploadResult = <<>>,
                     !.isUploading = FALSE]

\* lines 65-76: xhr.onerror and xhr.ontimeout
OnFailure(tab, message) ==
    [tab EXCEPT !.uploadError = message, !.uploadResult = <<>>, !.isUploading = FALSE]

UploadFailures ==
    { <<"Network error occurred. Please check if the API server is running.">>,
      TimeoutMessage }

\* the upload request ends with a response: onload runs
UploadLoads(i, resp) ==
    /\ requests[i].kind = "upload"
    /\ requests' = RemoveRequest(i)
    /\ uploadTab' = IF requests[i].live THEN OnLoad(uploadTab, resp) ELSE uploadTab
    /\ UNCHANGED uploadFrame
    /\ UNCHANGED <<apiVars, statusVars>>

\* the upload request ends without one: onerror or ontimeout runs
UploadFails(i, message) ==
    /\ requests[i].kind = "upload"
    /\ requests' = RemoveRequest(i)
    /\ uploadTab' = IF requests[i].live THEN OnFailure(uploadTab, message) ELSE uploadTab
    /\ UNCHANGED uploadFrame
    /\ UNCHANGED <<apiVars, statusVars>>

UploadSettles ==
    /\ loaded
    /\ \E i \in 1..Len(requests) :
        \/ \E resp \in UploadResponses : UploadLoads(i, resp)
        \/ \E message \in UploadFailures : UploadFails(i, message)

----------------------------------------------------------------------------
(* SearchTab *)

Queries      == { <<>>, <<" ">>, <<" ", "q">> }
ResultCounts == { 5, 20 }

SearchResponses == { <<>>, <<ChunkA, ChunkB>> }

searchFrame == <<loaded, app, boundary, uploadTab, documentsTab, chatTab, viewer, threadSeen,
                 recovered>>

\* lines 51-87: the query box, the document filter and the result count
SearchEdit ==
    /\ loaded
    /\ searchTab.mounted
    /\ \/ \E q \in Queries :
            /\ q # searchTab.query
            /\ searchTab' = [searchTab EXCEPT !.query = q]
       \/ \E f \in {""} \cup { d.document_id : d \in Range(app.documents) } :
            /\ f # searchTab.fileFilter
            /\ searchTab' = [searchTab EXCEPT !.fileFilter = f]
       \/ \E n \in ResultCounts :
            /\ n # searchTab.numResults
            /\ searchTab' = [searchTab EXCEPT !.numResults = n]
    /\ UNCHANGED <<searchFrame, requests, lastAlert>>
    /\ UNCHANGED <<apiVars, statusVars>>

\* a handleSearch that sends the query whatever it is
SearchHandleSubmit_NoValidation ==
    /\ Len(requests) < MaxInFlight
    /\ lastAlert' = lastAlert
    /\ searchTab' = [searchTab EXCEPT !.isSearching = TRUE, !.error = <<>>,
                                      !.results = <<>>, !.hasResults = FALSE]
    /\ requests' = Append(requests,
          [Req("search", "search", "submit")
             EXCEPT !.message = Trim(searchTab.query),
                    !.limit = searchTab.numResults,
                    !.documentId = searchTab.fileFilter])

\* lines 12-35: handleSearch, up to the request
SearchHandleSubmit ==
    IF Trim(searchTab.query) = <<>>
    THEN /\ lastAlert' = <<"Please enter a search query">>
         /\ searchTab' = searchTab
         /\ requests' = requests
    ELSE /\ Len(requests) < MaxInFlight
         /\ lastAlert' = lastAlert
         /\ searchTab' = [searchTab EXCEPT !.isSearching = TRUE, !.error = <<>>,
                                           !.results = <<>>, !.hasResults = FALSE]
         /\ requests' = Append(requests,
               [Req("search", "search", "submit")
                  EXCEPT !.message = Trim(searchTab.query),
                         !.limit = searchTab.numResults,
                         !.documentId = searchTab.fileFilter])

\* lines 89-95: the Search button, enabled while no search runs and the query is
\* not blank
SearchSubmit ==
    /\ loaded
    /\ searchTab.mounted
    /\ ~(searchTab.isSearching \/ Trim(searchTab.query) = <<>>)
    /\ SearchHandleSubmit
    /\ UNCHANGED searchFrame
    /\ UNCHANGED <<apiVars, statusVars>>

\* line 48: a submit event that reaches the form without the button, as
\* form.requestSubmit() dispatches it; handleSearch runs whatever the button's
\* state is
SearchFormSubmit ==
    /\ loaded
    /\ searchTab.mounted
    /\ SearchHandleSubmit
    /\ UNCHANGED searchFrame
    /\ UNCHANGED <<apiVars, statusVars>>

\* lines 35-36, 39-41: the search request resolves
SearchSucceeds(i, found) ==
    /\ requests[i].kind = "search"
    /\ requests' = RemoveRequest(i)
    /\ searchTab' = IF requests[i].live
                    THEN [searchTab EXCEPT !.results = found, !.hasResults = TRUE,
                                           !.isSearching = FALSE]
                    ELSE searchTab
    /\ UNCHANGED <<searchFrame, lastAlert>>
    /\ UNCHANGED <<apiVars, statusVars>>

\* lines 35, 37-41: the search request rejects
SearchFails(i, message) ==
    /\ requests[i].kind = "search"
    /\ requests' = RemoveRequest(i)
    /\ searchTab' = IF requests[i].live
                    THEN [searchTab EXCEPT
                            !.error = <<"Error searching documents: ">> \o message,
                            !.isSearching = FALSE]
                    ELSE searchTab
    /\ UNCHANGED <<searchFrame, lastAlert>>
    /\ UNCHANGED <<apiVars, statusVars>>

SearchSettles ==
    /\ loaded
    /\ \E i \in 1..Len(requests) :
        \/ \E found \in SearchResponses : SearchSucceeds(i, found)
        \/ \E message \in ApiErrors : SearchFails(i, message)

----------------------------------------------------------------------------
(* ChatTab (the conversation view) *)

SystemStatuses == { "ready", "not_initialized", "initializing" }
ChatInputs     == { <<>>, <<" ">>, <<"h", "i">> }
ThreadIds      == { Null, "", "t1", "t2" }
ChatReplies    == { [response |-> <<"answer">>, thread_id |-> t] : t \in ThreadIds }

Message(type, content) == [type |-> type, content |-> content]

UserTurns(messages) == Cardinality({ k \in 1..Len(messages) : messages[k].type = "user" })

chatFrame == <<loaded, app, boundary, uploadTab, documentsTab, searchTab, viewer, lastAlert,
               recovered>>

\* lines 193-207: the input box and the Send button are disabled while a turn is
\* processed or the system is not ready
\* a readiness test that lets every status through
NotReady_Never(tab) == FALSE

\* lines 199, 204: systemStatus.status !== 'ready'
NotReady(tab) == tab.systemStatus.status # "ready"

InputEnabled(tab) == ~(tab.isProcessing \/ NotReady(tab))
SendEnabled(tab) ==
    ~(tab.isProcessing \/ Trim(tab.input) = <<>> \/ NotReady(tab))

ConnectFailed(tab, message) ==
    [tab EXCEPT !.error = <<"Failed to connect to chat system: ">> \o message]

\* an AfterStatus that initializes again whenever the answer is not_initialized
AfterStatus_Retry(asked, st) ==
    IF st = "not_initialized"
    THEN <<[Req("chat", "initialize", "mount") EXCEPT !.live = asked.live]>>
    ELSE <<>>

\* lines 39-45 of checkSystemStatus: what follows a status answer
AfterStatus(asked, st) ==
    IF asked.cause = "mount" /\ st = "not_initialized"
    THEN <<[Req("chat", "initialize", "mount") EXCEPT !.live = asked.live]>>
    ELSE <<>>

\* lines 35-36, 44-45: a status request resolves
StatusSucceeds(i, st) ==
    /\ requests[i].kind = "status"
    /\ chatTab' = IF requests[i].live
                  THEN [chatTab EXCEPT !.systemStatus = [status |-> st]]
                  ELSE chatTab
    /\ requests' = RemoveRequest(i) \o AfterStatus(requests[i], st)
    /\ UNCHANGED <<chatFrame, threadSeen>>
    /\ UNCHANGED <<apiVars, statusVars>>

\* lines 47-50: a request of checkSystemStatus rejects
ConnectFails(i, message) ==
    /\ requests[i].kind \in {"status", "initialize"}
    /\ chatTab' = IF requests[i].live THEN ConnectFailed(chatTab, message) ELSE chatTab
    /\ requests' = RemoveRequest(i)
    /\ UNCHANGED <<chatFrame, threadSeen>>
    /\ UNCHANGED <<apiVars, statusVars>>

\* lines 40-44: the initialize request resolves and the status is asked again
InitializeSucceeds(i) ==
    /\ requests[i].kind = "initialize"
    /\ requests' = RemoveRequest(i) \o
                   <<[Req("chat", "status", "initialize") EXCEPT !.live = requests[i].live]>>
    /\ UNCHANGED <<chatFrame, chatTab, threadSeen>>
    /\ UNCHANGED <<apiVars, statusVars>>

StatusSettles ==
    /\ loaded
    /\ \E i \in 1..Len(requests), st \in SystemStatuses : StatusSucceeds(i, st)

InitializeSettles ==
    /\ loaded
    /\ \E i \in 1..Len(requests) : InitializeSucceeds(i)

ConnectSettles ==
    /\ loaded
    /\ \E i \in 1..Len(requests), message \in ApiErrors : ConnectFails(i, message)

\* line 198: typing into the input box
ChatType ==
    /\ loaded
    /\ chatTab.mounted
    /\ InputEnabled(chatTab)
    /\ \E text \in ChatInputs :
        /\ text # chatTab.input
        /\ chatTab' = [chatTab EXCEPT !.input = text]
    /\ UNCHANGED <<chatFrame, requests, threadSeen>>
    /\ UNCHANGED <<apiVars, statusVars>>

\* lines 71-80: the request of a turn, carrying the message and the thread id
\* the view holds
ChatRequest(tab) ==
    [Req("chat", "chat", "submit") EXCEPT !.message = tab.input,
                                          !.thread_id = tab.threadId]

\* lines 57-80: handleSubmit, up to the request
ChatHandleSubmit ==
    IF Trim(chatTab.input) = <<>>
    THEN /\ chatTab' = chatTab
         /\ requests' = requests
    ELSE /\ Len(requests) < MaxInFlight
         /\ UserTurns(chatTab.messages) < MaxTurns
         /\ chatTab' = [chatTab EXCEPT
                          !.input = <<>>,
                          !.messages = Append(@, Message("user", chatTab.input)),
                          !.isProcessing = TRUE,
                          !.error = <<>>]
         /\ requests' = Append(requests, ChatRequest(chatTab))

\* lines 191-208: the Send button
ChatSubmit ==
    /\ loaded
    /\ chatTab.mounted
    /\ SendEnabled(chatTab)
    /\ ChatHandleSubmit
    /\ UNCHANGED <<chatFrame, threadSeen>>
    /\ UNCHANGED <<apiVars, statusVars>>

\* a ChatReplied that stores whatever thread_id the reply has, missing or not
ChatReplied_Unconditional(tab, reply) ==
    [tab EXCEPT !.threadId = reply.thread_id,
                !.messages = Append(@, Message("assistant", reply.response)),
                !.isProcessing = FALSE]

\* lines 82-91, 99-101: a reply arrived
ChatReplied(tab, reply) ==
    [tab EXCEPT !.threadId = IF Truthy(reply.thread_id) THEN reply.thread_id ELSE @,
                !.messages = Append(@, Message("assistant", reply.response)),
                !.isProcessing = FALSE]

\* a ChatFailed that takes the user's entry back before it adds the error entry
ChatFailed_RollsBack(tab, message) ==
    [tab EXCEPT !.error = <<"Failed to send message: ">> \o message,
                !.messages = Append(SubSeq(@, 1, Len(@) - 1),
                                    Message("error", <<"Error: ">> \o message)),
                !.isProcessing = FALSE]

\* a ChatFailed that shows the error but adds no entry to the transcript
ChatFailed_NoEntry(tab, message) ==
    [tab EXCEPT !.error = <<"Failed to send message: ">> \o message,
                !.isProcessing = FALSE]

\* lines 92-101: the request failed
ChatFailed(tab, message) ==
    [tab EXCEPT !.error = <<"Failed to send message: ">> \o message,
                !.messages = Append(@, Message("error", <<"Error: ">> \o message)),
                !.isProcessing = FALSE]

\* lines 70-91: the request of a turn resolves
ChatSucceeds(i, reply) ==
    /\ requests[i].kind = "chat"
    /\ requests' = RemoveRequest(i)
    /\ chatTab' = IF requests[i].live THEN ChatReplied(chatTab, reply) ELSE chatTab
    /\ threadSeen' = IF requests[i].live /\ reply.thread_id \notin {Null, ""}
                     THEN reply.thread_id
                     ELSE threadSeen
    /\ UNCHANGED chatFrame
    /\ UNCHANGED <<apiVars, statusVars>>

\* lines 70-80, 92-101: the request of a turn rejects
ChatFails(i, message) ==
    /\ requests[i].kind = "chat"
    /\ requests' = RemoveRequest(i)
    /\ chatTab' = IF requests[i].live THEN ChatFailed(chatTab, message) ELSE chatTab
    /\ UNCHANGED <<chatFrame, threadSeen>>
    /\ UNCHANGED <<apiVars, statusVars>>

ChatSettles ==
    /\ loaded
    /\ \E i \in 1..Len(requests) :
        \/ \E reply \in ChatReplies : ChatSucceeds(i, reply)
        \/ \E message \in ApiErrors : ChatFails(i, message)

----------------------------------------------------------------------------
(* The specifications *)

\* App lines 76-77, ErrorBoundary line 6: the page has loaded; the upload view is
\* the active one
InitApp ==
    /\ loaded = TRUE
    /\ app = [activeTab |-> "upload", documents |-> <<>>]
    /\ boundary = [hasError |-> FALSE]
    /\ uploadTab = UploadTabInitial
    /\ documentsTab = Unmounted(DocumentsTabInitial)
    /\ searchTab = Unmounted(SearchTabInitial)
    /\ chatTab = Unmounted(ChatTabInitial)
    /\ viewer = ViewerClosed
    /\ requests = <<>>
    /\ lastAlert = <<>>
    /\ threadSeen = Null
    /\ recovered = FALSE

Init == InitApi /\ InitStatus /\ InitApp

NextApp ==
    \/ \E tab \in Tabs : SetActiveTab(tab)
    \/ RenderFails
    \/ TryToRecover
    \/ RefreshPage
    \/ HandleFileChange
    \/ UploadSubmit
    \/ UploadProgress
    \/ UploadSettles
    \/ DocsRefresh
    \/ ListSettles
    \/ DocsView
    \/ DocsCloseViewer
    \/ ContentSettles
    \/ DocsDelete
    \/ DeleteSettles
    \/ SearchEdit
    \/ SearchSubmit
    \/ SearchSettles
    \/ StatusSettles
    \/ InitializeSettles
    \/ ConnectSettles
    \/ ChatType
    \/ ChatSubmit
    \/ ChatSettles

\* The upload and the search view with submit events dispatched to their forms
FormTabs == {"upload", "search"}

NextForms ==
    \/ \E tab \in FormTabs : SetActiveTab(tab)
    \/ HandleFileChange
    \/ UploadFormSubmit
    \/ UploadProgress
    \/ UploadSettles
    \/ SearchEdit
    \/ SearchFormSubmit
    \/ SearchSettles

SpecForms  == Init /\ [][NextForms]_vars
SpecApi    == Init /\ [][NextApi]_vars
SpecStatus == Init /\ [][NextStatus]_vars
Spec       == Init /\ [][NextApp]_vars

----------------------------------------------------------------------------
(* Properties of apiRequest, checked under SpecApi *)

\* C1: every non-2xx response whose body parses as JSON and carries a non-empty
\* detail field makes the call reject with an error whose message is that detail
\* value, not the generic message built from the status.
C1_DetailSurfaced ==
    ( /\ apiStage = "rejected"
      /\ apiResponse # NoResponse
      /\ ~ResponseOk(apiResponse)
      /\ apiResponse.body.kind = "object"
      /\ apiResponse.body.detail \notin {Undefined, ""} )
    => apiResult.message = <<apiResponse.body.detail>>

\* C2: a call that has not completed when TIMEOUT ms have passed, whether it
\* waits for the response or still reads the body, has been aborted and has
\* rejected with the timeout message.
C2_TimeoutSurfaced ==
    ( /\ apiStage # "idle"
      /\ apiClock >= TIMEOUT
      /\ ~TimerDue
      /\ ~(apiSettledAt >= 0 /\ apiSettledAt < TIMEOUT) )
    => ( /\ apiStage = "rejected"
         /\ apiResult.message = TimeoutMessage )

----------------------------------------------------------------------------
(* Properties of the connectivity indicator, checked under SpecStatus *)

\* C9: the status starts as checking; once a poll has completed the status is the
\* outcome of the poll that completed last, whatever the status was before: online
\* for a 2xx response, error for any other response, offline for a network failure
\* or the 3 s timeout. Polls never overlap, so the last poll to complete is the
\* last one started.
C9_StatusIsLastOutcome ==
    /\ Len(polls) <= 1
    /\ lastOutcome.kind = "none" => status = "checking"
    /\ (lastOutcome.kind = "response" /\ lastOutcome.status \in 200..299)
          => status = "online"
    /\ (lastOutcome.kind = "response" /\ lastOutcome.status \notin 200..299)
          => status = "error"
    /\ lastOutcome.kind \in {"network", "timeout"} => status = "offline"

\* a poll that reached the server right after one that did not
C9_Witness ==
    /\ prevStatus = "offline"
    /\ status = "online"
    /\ lastOutcome.kind = "response"

----------------------------------------------------------------------------
(* Properties of the views and the shell, checked under Spec *)

LiveRequests(view) ==
    { i \in 1..Len(requests) : requests[i].view = view /\ requests[i].live }

Count(kind, cause, reqs) ==
    Cardinality({ i \in 1..Len(reqs) : reqs[i].kind = kind /\ reqs[i].cause = cause })

\* C3: every chat request of the mounted conversation view carries the thread id
\* of the latest reply of this instance that had one (a non-empty id), and null
\* when there was none; failed turns and replies without an id leave it alone.
C3_ThreadIdCarried ==
    /\ chatTab.mounted => chatTab.threadId = threadSeen
    /\ \A i \in 1..Len(requests) :
          (requests[i].kind = "chat" /\ requests[i].live)
             => requests[i].thread_id = threadSeen

\* the third turn is sent with the id of the first reply, the second turn having
\* failed
C3_Witness ==
    /\ Len(chatTab.messages) = 5
    /\ chatTab.messages[2].type = "assistant"
    /\ chatTab.messages[4].type = "error"
    /\ \E i \in 1..Len(requests) :
          requests[i].kind = "chat" /\ requests[i].live /\ requests[i].thread_id = "t1"

\* C4: when the request of a turn of the mounted view fails, the transcript, which
\* ends with that turn's user entry, grows by exactly one error entry and is
\* otherwise unchanged, and the error field is set.
C4_FailedTurn ==
    [][ \A i \in 1..Len(requests), message \in ApiErrors :
          (ChatFails(i, message) /\ requests[i].live)
             => /\ chatTab.messages # <<>>
                /\ chatTab.messages[Len(chatTab.messages)]
                      = Message("user", requests[i].message)
                /\ chatTab'.messages
                      = Append(chatTab.messages, Message("error", <<"Error: ">> \o message))
                /\ chatTab'.error = <<"Failed to send message: ">> \o message ]_vars

C4_Witness ==
    /\ chatTab.mounted
    /\ ~chatTab.isProcessing
    /\ Len(chatTab.messages) = 2
    /\ chatTab.messages[1].type = "user"
    /\ chatTab.messages[2].type = "error"
    /\ chatTab.error # <<>>

\* C5: a delete request that succeeds is replaced by exactly one list fetch, issued
\* for that reason and for no other; the displayed collection changes only when a
\* list fetch resolves (or the view is mounted or unmounted), so nothing is removed
\* locally; and when the fetch that followed a delete resolves, the displayed
\* collection is the fetched one.
C5_DeleteThenRefresh ==
    [][ /\ \A i \in 1..Len(requests) :
              DeleteSucceeds(i)
                 => /\ requests' = RemoveAt(requests, i) \o
                          <<[Req("documents", "list", "delete")
                               EXCEPT !.live = requests[i].live]>>
                    /\ documentsTab'.documents = documentsTab.documents
        /\ Count("list", "delete", requests') > Count("list", "delete", requests)
              => \E i \in 1..Len(requests) : DeleteSucceeds(i)
        /\ documentsTab'.documents # documentsTab.documents
              => \/ \E i \in 1..Len(requests), docs \in ListResponses :
                       ListSucceeds(i, docs)
                 \/ documentsTab'.mounted # documentsTab.mounted
        /\ \A i \in 1..Len(requests), docs \in ListResponses :
              (ListSucceeds(i, docs) /\ requests[i].live /\ requests[i].cause = "delete")
                 => documentsTab'.documents = docs ]_vars

\* after a delete the refreshed list still shows every document
C5_Witness ==
    /\ documentsTab.mounted
    /\ ~documentsTab.isLoading
    /\ documentsTab.documents = <<DocA, DocB>>
    /\ lastAlert = <<"Document deleted successfully">>
    /\ requests = <<>>

\* C6: a declined confirmation issues no request; a confirmed delete that fails
\* shows the error, issues no list fetch, and leaves the listing view (collection,
\* loading flag, selected document) and the shell's collection as they were.
C6_DeleteFailureFrame ==
    [][ /\ \A doc \in {DocA, DocB} :
              DocsDeleteDeclined(doc) => requests' = requests
        /\ \A i \in 1..Len(requests), message \in ApiErrors :
              DeleteFails(i, message)
                 => /\ lastAlert' = <<"Error deleting document: ">> \o message
                    /\ requests' = RemoveAt(requests, i)
                    /\ documentsTab' = documentsTab
                    /\ app' = app ]_vars

C6_Witness ==
    /\ documentsTab.mounted
    /\ ~documentsTab.isLoading
    /\ documentsTab.documents # <<>>
    /\ documentsTab.selectedDocument # <<>>
    /\ lastAlert # <<>>
    /\ lastAlert[1] = "Error deleting document: "
    /\ requests = <<>>

\* C7: in each of the four views at most one request issued by the mounted view is
\* in flight.
C7_OneRequestPerView ==
    \A view \in Tabs : Cardinality(LiveRequests(view)) <= 1

\* some request in flight settles
SettlesAt(i) ==
    \/ \E docs \in ListResponses : ListSucceeds(i, docs)
    \/ \E message \in ApiErrors : ListFails(i, message)
    \/ DeleteSucceeds(i)
    \/ \E message \in ApiErrors : DeleteFails(i, message)
    \/ \E chunks \in ContentResponses : ContentSucceeds(i, chunks)
    \/ \E message \in ApiErrors : ContentFails(i, message)
    \/ \E resp \in UploadResponses : UploadLoads(i, resp)
    \/ \E message \in UploadFailures : UploadFails(i, message)
    \/ \E found \in SearchResponses : SearchSucceeds(i, found)
    \/ \E message \in ApiErrors : SearchFails(i, message)
    \/ \E st \in SystemStatuses : StatusSucceeds(i, st)
    \/ InitializeSucceeds(i)
    \/ \E message \in ApiErrors : ConnectFails(i, message)
    \/ \E reply \in ChatReplies : ChatSucceeds(i, reply)
    \/ \E message \in ApiErrors : ChatFails(i, message)

\* C8: a request whose view was unmounted stays in flight, and when it settles
\* neither the shell (its shared collection included) nor the wrapper nor any view
\* changes.
C8_LateResultsDiscarded ==
    [][ \A i \in 1..Len(requests) :
          (~requests[i].live /\ SettlesAt(i))
             => UNCHANGED <<app, boundary, uploadTab, documentsTab, searchTab, chatTab>>
      ]_vars

\* The child the shell selects, freshly mounted, and every other child unmounted
FreshChildren(tab) ==
    /\ uploadTab = IF tab = "upload" THEN UploadTabInitial
                   ELSE Unmounted(UploadTabInitial)
    /\ documentsTab = IF tab = "documents" THEN DocumentsTabInitial
                      ELSE Unmounted(DocumentsTabInitial)
    /\ searchTab = IF tab = "search" THEN SearchTabInitial
                   ELSE Unmounted(SearchTabInitial)
    /\ chatTab = IF tab = "chat" THEN ChatTabInitial
                 ELSE Unmounted(ChatTabInitial)

NoChildMounted ==
    ~(uploadTab.mounted \/ documentsTab.mounted \/ searchTab.mounted \/ chatTab.mounted)

\* C10: a rendering failure puts the wrapper in the faulted state, in which no
\* child is mounted; while the page lives, the only step that takes it back to
\* normal is "Try to recover", switching the active view included; that step
\* mounts the selected child with its initial state.
C10_FaultWrapper ==
    [][ /\ RenderFails => boundary'.hasError
        /\ boundary'.hasError => NoChildMounted'
        /\ (boundary.hasError /\ ~boundary'.hasError) => TryToRecover
        /\ (boundary.hasError /\ app'.activeTab # app.activeTab) => boundary'.hasError
        /\ TryToRecover => (~boundary'.hasError /\ FreshChildren(app.activeTab)') ]_vars

\* a child failed again after a recovery
C10_Witness ==
    /\ recovered
    /\ boundary.hasError
    /\ app.activeTab = "chat"

\* the requests of checkSystemStatus that the mounted conversation view awaits
MountSequenceRequests ==
    { i \in 1..Len(requests) :
        requests[i].live /\ requests[i].kind \in {"status", "initialize"} }

\* C11: mounting the conversation view issues one status request, and nothing else
\* issues the first status request; an initialize request follows exactly when
\* that first status is not_initialized, and when it succeeds exactly one further
\* status request follows, whose answer starts nothing, so no step is repeated;
\* the sequence has at most one request in flight, and the status shown tells
\* where it stands; a failing step of the mounted view surfaces the connection
\* error, issues nothing and leaves the system status as it was; the system status
\* changes only when a status request of the mounted view resolves.
C11_MountSequence ==
    /\ [] ( /\ Cardinality(MountSequenceRequests) <= 1
            /\ \A i \in MountSequenceRequests :
                  chatTab.systemStatus.status =
                     IF requests[i].kind = "status" /\ requests[i].cause = "mount"
                     THEN "unknown" ELSE "not_initialized" )
    /\ [][ /\ (~chatTab.mounted /\ chatTab'.mounted)
                 => requests' = Orphan(requests) \o <<Req("chat", "status", "mount")>>
           /\ Count("status", "mount", requests') > Count("status", "mount", requests)
                 => (~chatTab.mounted /\ chatTab'.mounted)
           /\ \A i \in 1..Len(requests), st \in SystemStatuses :
                 StatusSucceeds(i, st)
                    => /\ requests' = RemoveAt(requests, i) \o
                            ( IF requests[i].cause = "mount" /\ st = "not_initialized"
                              THEN <<[Req("chat", "initialize", "mount")
                                        EXCEPT !.live = requests[i].live]>>
                              ELSE <<>> )
                       /\ requests[i].live => chatTab'.systemStatus.status = st
           /\ \A i \in 1..Len(requests) :
                 InitializeSucceeds(i)
                    => /\ requests' = RemoveAt(requests, i) \o
                            <<[Req("chat", "status", "initialize")
                                 EXCEPT !.live = requests[i].live]>>
                       /\ chatTab'.systemStatus = chatTab.systemStatus
           /\ \A i \in 1..Len(requests), message \in ApiErrors :
                 ConnectFails(i, message)
                    => /\ requests' = RemoveAt(requests, i)
                       /\ chatTab'.systemStatus = chatTab.systemStatus
                       /\ requests[i].live
                             => chatTab'.error =
                                   <<"Failed to connect to chat system: ">> \o message
           /\ chatTab'.systemStatus # chatTab.systemStatus
                 => \/ chatTab'.mounted # chatTab.mounted
                    \/ \E i \in 1..Len(requests), st \in SystemStatuses :
                          StatusSucceeds(i, st) /\ requests[i].live ]_vars

\* the initialize step or the status request after it failed: the error shows and
\* the status is still the first answer
C11_Witness ==
    /\ chatTab.mounted
    /\ chatTab.systemStatus.status = "not_initialized"
    /\ chatTab.error # <<>>
    /\ chatTab.error[1] = "Failed to connect to chat system: "
    /\ requests = <<>>

ChatRequestsInFlight(reqs) ==
    Cardinality({ i \in 1..Len(reqs) : reqs[i].kind = "chat" })

\* C12: while the system status of the conversation view is not ready, the
\* transcript is empty, no turn is processed and no turn request of the view is
\* in flight; no step taken in such a state sends a turn request or changes the
\* transcript; and every turn is sent from a state whose status is ready.
C12_NoTurnUnlessReady ==
    /\ [] ( chatTab.systemStatus.status # "ready"
              => /\ chatTab.messages = <<>>
                 /\ ~chatTab.isProcessing
                 /\ \A i \in 1..Len(requests) :
                       requests[i].kind = "chat" => ~requests[i].live )
    /\ [][ /\ chatTab.systemStatus.status # "ready"
                 => /\ ChatRequestsInFlight(requests') <= ChatRequestsInFlight(requests)
                    /\ chatTab'.messages = chatTab.messages
           /\ ChatRequestsInFlight(requests') > ChatRequestsInFlight(requests)
                 => (ChatSubmit /\ chatTab.systemStatus.status = "ready") ]_vars

\* the view was mounted again while a turn of its previous instance is in flight,
\* and the system answered that it is still initializing
C12_Witness ==
    /\ chatTab.mounted
    /\ chatTab.systemStatus.status = "initializing"
    /\ chatTab.messages = <<>>
    /\ \E i \in 1..Len(requests) : requests[i].kind = "chat" /\ ~requests[i].live

----------------------------------------------------------------------------
(* Properties of the forms, checked under SpecForms *)

\* C13: a submit event of the search form whose query is empty or blank issues no
\* request, alerts the validation message and leaves the search view, its
\* searching flag included, as it was; a submit event of the upload form with no
\* file selected issues no request, puts the validation message in the result
\* area and leaves the uploading flag as it was.
C13_ValidationBlocksNetwork ==
    [][ /\ (SearchFormSubmit /\ Trim(searchTab.query) = <<>>)
              => /\ requests' = requests
                 /\ lastAlert' = <<"Please enter a search query">>
                 /\ searchTab' = searchTab
        /\ (UploadFormSubmit /\ Len(uploadTab.selectedFiles) = 0)
              => /\ requests' = requests
                 /\ uploadTab'.uploadResult = <<"Please select a file">>
                 /\ uploadTab'.isUploading = uploadTab.isUploading ]_vars

\* both validations have answered and nothing is in flight
C13_Witness ==
    /\ uploadTab.mounted
    /\ uploadTab.uploadResult = <<"Please select a file">>
    /\ ~uploadTab.isUploading
    /\ lastAlert = <<"Please enter a search query">>
    /\ requests = <<>>

----------------------------------------------------------------------------
(* Properties of the detail viewer, checked under Spec *)

ViewerFetches == { i \in 1..Len(requests) : requests[i].kind = "content" /\ requests[i].live }

\* C14: while the viewer is open, the fetch issued last is one for the identifier
\* it shows, with limit 50; and once no fetch of the viewer is outstanding, what
\* it displays, the chunks in the order returned or the error, is the outcome of
\* that fetch, whatever earlier fetches did and whenever they settled.
C14_ViewerShowsCurrent ==
    viewer.mounted
       => /\ viewer.latest = <<"pending">>
                => \E i \in ViewerFetches :
                      /\ \A j \in ViewerFetches : j <= i
                      /\ requests[i].documentId = viewer.documentId
                      /\ requests[i].limit = 50
          /\ ViewerFetches = {} => Displayed(viewer) = viewer.latest

----------------------------------------------------------------------------
(* Further properties of the views, checked under Spec *)

\* C15: the uploading flag of the upload view is set only while an upload request
\* of the view is in flight, so that whatever ends the request (a 2xx answer with
\* or without a JSON body, any other answer, a network error, the timeout) also
\* ends the uploading state; otherwise nothing is left that could clear the flag
\* and enable the Upload button again.
C15_UploadingEnds ==
    (uploadTab.mounted /\ uploadTab.isUploading)
       => \E i \in 1..Len(requests) : requests[i].kind = "upload" /\ requests[i].live

IsPrefix(a, b) == Len(a) <= Len(b) /\ SubSeq(b, 1, Len(a)) = a

\* C16: the transcript of the conversation view alternates: every odd entry is a
\* user entry and every even entry is the assistant or error entry that answers
\* it; its last entry is an unanswered user entry exactly when the processing flag
\* is set, which is exactly when a turn request of the view is in flight; and
\* while the view stays mounted each step leaves the transcript a prefix of the
\* next one.
C16_TranscriptShape ==
    /\ [] ( /\ \A k \in 1..Len(chatTab.messages) :
                  IF k % 2 = 1
                  THEN chatTab.messages[k].type = "user"
                  ELSE chatTab.messages[k].type \in {"assistant", "error"}
            /\ chatTab.isProcessing <=> Len(chatTab.messages) % 2 = 1
            /\ chatTab.isProcessing
                  <=> \E i \in 1..Len(requests) :
                         requests[i].kind = "chat" /\ requests[i].live )
    /\ [][ (chatTab.mounted /\ chatTab'.mounted)
              => IsPrefix(chatTab.messages, chatTab'.messages) ]_vars

\* a failed turn followed by an answered one
C16_Witness ==
    /\ chatTab.mounted
    /\ ~chatTab.isProcessing
    /\ Len(chatTab.messages) = 4
    /\ chatTab.messages[2].type = "error"
    /\ chatTab.messages[4].type = "assistant"

ListFetches == { i \in 1..Len(requests) : requests[i].kind = "list" /\ requests[i].live }

\* C17: in the mounted listing view the loading flag is set whenever one of its
\* list fetches is outstanding; once none is outstanding and the fetch issued last
\* has answered, the displayed collection is that answer, in whatever order the
\* answers of overlapping fetches arrived; and every answer the view takes goes to
\* the displayed and to the shared collection alike.
C17_LatestFetchWins ==
    /\ [] ( documentsTab.mounted
              => /\ ListFetches # {} => documentsTab.isLoading
                 /\ (ListFetches = {} /\ documentsTab.latest # <<"error">>)
                       => documentsTab.latest = <<"docs", documentsTab.documents>> )
    /\ [][ \A i \in 1..Len(requests), docs \in ListResponses :
              (ListSucceeds(i, docs) /\ requests[i].live)
                 => app'.documents = documentsTab'.documents ]_vars

====
